---- MODULE Spec2Model ----
(***************************************************************************)
(* A model of examples/table_display.py: the two numeric formatters, the   *)
(* derived-density formatter, the module-level construction of the example *)
(* datasets and column lists, and the TableDisplay commands that hand them *)
(* to the table renderer and the pager.                                    *)
(*                                                                         *)
(* Python numbers are modelled as exact rationals n/d (d > 0) plus the     *)
(* non-finite floats NaN, +Infinity, -Infinity and the negative zero.      *)
(* Python strings produced by the formatters are sequences of one-         *)
(* character strings, so that their shape can be inspected.                *)
(***************************************************************************)
EXTENDS Integers, Sequences, FiniteSets, TLC

(***************************************************************************)
(* Bounds of the model.                                                    *)
(***************************************************************************)
\* numerators of the numbers handed to the formatters: -MaxNum .. MaxNum
MaxNum == 12
\* denominators of the numbers handed to the formatters: 1 .. MaxDen
MaxDen == 8
\* populations of the records handed to pop_density: -1 .. MaxPop
MaxPop == 5
\* area numerators of the records handed to pop_density: 0 .. MaxArea (over 1 or 2)
MaxArea == 4
\* rows of a dataset handed directly to ptable
MaxRows == 2
\* tokens on a command line
MaxArgs == 2

(***************************************************************************)
(* Numbers.                                                                *)
(***************************************************************************)
Fin(n, d) == [k |-> "fin", n |-> n, d |-> d]
NaN == [k |-> "nan", n |-> 0, d |-> 1]
PosInf == [k |-> "inf", n |-> 1, d |-> 1]
NegInf == [k |-> "inf", n |-> -1, d |-> 1]
NegZero == [k |-> "negzero", n |-> 0, d |-> 1]

IsFinite(x) == x.k \in {"fin", "negzero"}
IsZero(x) == IsFinite(x) /\ x.n = 0
IsNegative(x) == x.k = "negzero" \/ x.n < 0
Abs(n) == IF n < 0 THEN -n ELSE n

RECURSIVE Gcd(_, _)
Gcd(a, b) == IF b = 0 THEN a ELSE Gcd(b, a % b)

\* a finite number in lowest terms
Norm(n, d) == LET g == Gcd(Abs(n), d) IN Fin(n \div g, d \div g)

\* an outcome of a Python expression: a value, or a raised exception
Value(v) == [exc |-> "none", val |-> v]
Raise(e) == [exc |-> e, val |-> <<>>]

\* Python's true division a / b on numbers
TrueDiv(a, b) ==
    IF IsZero(b) THEN Raise("ZeroDivisionError")
    ELSE IF a.k = "nan" \/ b.k = "nan" THEN Value(NaN)
    ELSE IF a.k = "inf" /\ b.k = "inf" THEN Value(NaN)
    ELSE IF a.k = "inf" THEN Value(IF IsNegative(a) = IsNegative(b) THEN PosInf ELSE NegInf)
    ELSE IF b.k = "inf" \/ IsZero(a)
         THEN Value(IF IsNegative(a) = IsNegative(b) THEN Fin(0, 1) ELSE NegZero)
    ELSE Value(IF b.n > 0 THEN Norm(a.n * b.d, a.d * b.n)
                          ELSE Norm(-(a.n * b.d), a.d * (-b.n)))

\* a variant that rounds every tie upwards: floor(n/d + 1/2)
RoundHalfUp(n, d) == (2 * n + d) \div (2 * d)

\* the integer nearest to n/d (d > 0), a tie going to the even neighbour
RoundHalfEven(n, d) ==
    LET q == n \div d
        r == n - q * d
    IN  IF 2 * r < d THEN q
        ELSE IF 2 * r > d THEN q + 1
        ELSE IF q % 2 = 0 THEN q ELSE q + 1

\* Python's round(num) with no ndigits: an int, or an exception
Round(num) ==
    IF num.k = "nan" THEN Raise("ValueError")
    ELSE IF num.k = "inf" THEN Raise("OverflowError")
    ELSE Value(RoundHalfEven(num.n, num.d))

(***************************************************************************)
(* Strings: sequences of characters.                                       *)
(***************************************************************************)
DigitChars == <<"0", "1", "2", "3", "4", "5", "6", "7", "8", "9">>
DigitSet == {DigitChars[j] : j \in 1..10}

RECURSIVE NatToStr(_)
NatToStr(n) ==
    IF n < 10 THEN <<DigitChars[n + 1]>>
    ELSE NatToStr(n \div 10) \o <<DigitChars[(n % 10) + 1]>>

\* "{}".format(i) for a Python int i
IntToStr(i) == IF i < 0 THEN <<"-">> \o NatToStr(-i) ELSE NatToStr(i)

\* a variant that does not pad the fraction with zeros
FormatTwoFUnpadded(num) ==
    IF num.k = "nan" THEN <<"n", "a", "n">>
    ELSE IF num.k = "inf"
         THEN (IF num.n < 0 THEN <<"-">> ELSE <<>>) \o <<"i", "n", "f">>
    ELSE LET m == RoundHalfEven(Abs(num.n) * 100, num.d)
         IN  (IF IsNegative(num) THEN <<"-">> ELSE <<>>)
             \o NatToStr(m \div 100) \o <<".">> \o NatToStr(m % 100)

\* "{0:.2f}".format(num)
FormatTwoF(num) ==
    IF num.k = "nan" THEN <<"n", "a", "n">>
    ELSE IF num.k = "inf"
         THEN (IF num.n < 0 THEN <<"-">> ELSE <<>>) \o <<"i", "n", "f">>
    ELSE LET m == RoundHalfEven(Abs(num.n) * 100, num.d)
             frac == m % 100
         IN  (IF IsNegative(num) THEN <<"-">> ELSE <<>>)
             \o NatToStr(m \div 100) \o <<".">>
             \o <<DigitChars[(frac \div 10) + 1], DigitChars[(frac % 10) + 1]>>

(***************************************************************************)
(* The formatter functions.                                                *)
(***************************************************************************)
\* def no_dec(num): return "{}".format(round(num))
no_dec(num) ==
    LET r == Round(num)
    IN  IF r.exc # "none" THEN Raise(r.exc) ELSE Value(IntToStr(r.val))

\* def two_dec(num): return "{0:.2f}".format(num)
two_dec(num) == Value(FormatTwoF(num))

\* tf.FormatCommas(): an int with a comma between groups of three digits
RECURSIVE Commas(_)
Commas(n) ==
    IF n < 1000 THEN NatToStr(n)
    ELSE LET g == n % 1000
         IN  Commas(n \div 1000) \o <<",">>
             \o <<DigitChars[(g \div 100) + 1], DigitChars[((g \div 10) % 10) + 1],
                  DigitChars[(g % 10) + 1]>>

FormatCommas(v) ==
    IF v.n < 0 THEN <<"-">> \o Commas(-v.n) ELSE Commas(v.n)

(***************************************************************************)
(* Records: a row is a Python list, an object record is a CityInfo or an   *)
(* instance of some other class.                                           *)
(***************************************************************************)
List(items) == [cls |-> "list", items |-> items]

\* class CityInfo: __init__ stores the six constructor arguments
CityInfo(city, province, country, continent, population, area) ==
    [cls |-> "CityInfo", city |-> city, province |-> province, country |-> country,
     continent |-> continent, _population |-> population, _area |-> area,
     has_population |-> TRUE, has_area |-> TRUE]

\* an instance of a class other than CityInfo, with or without the accessors
Other(population, area, hasPop, hasArea) ==
    [cls |-> "Other", city |-> "c", province |-> "p", country |-> "n",
     continent |-> "t", _population |-> population, _area |-> area,
     has_population |-> hasPop, has_area |-> hasArea]

\* isinstance(data, CityInfo)
IsCityInfo(rec) == rec.cls = "CityInfo"

get_population(self) ==
    IF self.has_population THEN Value(self._population) ELSE Raise("AttributeError")

get_area(self) ==
    IF self.has_area THEN Value(self._area) ELSE Raise("AttributeError")

\* a variant that probes for the population accessor instead of the type
pop_density_duck(rec) ==
    IF rec.cls # "list" /\ rec.has_population
    THEN LET p == get_population(rec)
             a == get_area(rec)
         IN  IF a.exc # "none" THEN Raise(a.exc)
             ELSE LET q == TrueDiv(p.val, a.val)
                  IN  IF q.exc # "none" THEN Raise(q.exc) ELSE no_dec(q.val)
    ELSE Value(<<>>)

\* a variant that divides the area by the population
pop_density_inverted(rec) ==
    IF IsCityInfo(rec)
    THEN LET q == TrueDiv(get_area(rec).val, get_population(rec).val)
         IN  IF q.exc # "none" THEN Raise(q.exc) ELSE no_dec(q.val)
    ELSE Value(<<>>)

\* def pop_density(data): the density of a CityInfo, '' for anything else
pop_density(rec) ==
    IF IsCityInfo(rec)
    THEN LET q == TrueDiv(get_population(rec).val, get_area(rec).val)
         IN  IF q.exc # "none" THEN Raise(q.exc) ELSE no_dec(q.val)
    ELSE Value(<<>>)

(***************************************************************************)
(* The example data and the column lists, as the module's source gives     *)
(* them.  City names are given by their ASCII part.                        *)
(***************************************************************************)
\* the literal of EXAMPLE_ITERABLE_DATA: seven rows of six values
ExampleRows ==
    << List(<<"Shanghai", "Shanghai", "China", "Asia", Fin(24183300, 1), Fin(12681, 2)>>),
       List(<<"Beijing", "Hebei", "China", "Asia", Fin(20794000, 1), Fin(174957, 100)>>),
       List(<<"Karachi", "Sindh", "Pakistan", "Asia", Fin(14910352, 1), Fin(30779, 50)>>),
       List(<<"Shenzen", "Guangdong", "China", "Asia", Fin(13723000, 1), Fin(37333, 25)>>),
       List(<<"Guangzho", "Guangdong", "China", "Asia", Fin(13081000, 1), Fin(134781, 100)>>),
       List(<<"Mumbai", "Maharashtra", "India", "Asia", Fin(12442373, 1), Fin(23289, 50)>>),
       List(<<"Istanbul", "Istanbul", "Turkey", "Eurasia", Fin(12661000, 1), Fin(62029, 100)>>) >>

\* tf.Column(name, width, header_halign, cell_halign, attrib, formatter, obj_formatter)
Column(name, width, hh, ch, attrib, formatter, objf) ==
    [name |-> name, width |-> width, header_halign |-> hh, cell_halign |-> ch,
     attrib |-> attrib, formatter |-> formatter, obj_formatter |-> objf]

\* the literal of COLUMNS
ColumnsLiteral ==
    << Column("City", 11, "center", "default", "", "none", "none"),
       Column("Province", 0, "center", "default", "", "none", "none"),
       Column("Country", 0, "default", "default", "", "none", "none"),
       Column("Continent", 0, "default", "center", "", "none", "none"),
       Column("Population", 0, "default", "right", "", "FormatCommas", "none"),
       Column("Area", 7, "center", "right", "", "two_dec", "none"),
       Column("Pop. Density", 12, "center", "right", "", "no_dec", "none") >>

\* the literal of OBJ_COLS
ObjColsLiteral ==
    << Column("City", 0, "center", "default", "city", "none", "none"),
       Column("Province", 0, "center", "default", "province", "none", "none"),
       Column("Country", 0, "default", "default", "country", "none", "none"),
       Column("Continent", 0, "default", "center", "continent", "none", "none"),
       Column("Population", 0, "default", "right", "get_population", "FormatCommas", "none"),
       Column("Area", 7, "center", "right", "get_area", "two_dec", "none"),
       Column("Pop. Density", 12, "center", "right", "", "none", "pop_density") >>

\* a variant that divides the area by the population
RowDensityInverted(row) ==
    TrueDiv(row.items[Len(row.items)], row.items[Len(row.items) - 1]).val

\* row[-2]/row[-1]
RowDensity(row) ==
    TrueDiv(row.items[Len(row.items) - 1], row.items[Len(row.items)]).val

\* a variant that drops the first value of the row instead of the last
CityInfoOfRowTail(city_data) ==
    LET a == Tail(city_data.items)
    IN  CityInfo(a[1], a[2], a[3], a[4], a[5], a[6])

\* CityInfo(*city_data[:-1])
CityInfoOfRow(city_data) ==
    LET a == SubSeq(city_data.items, 1, Len(city_data.items) - 1)
    IN  CityInfo(a[1], a[2], a[3], a[4], a[5], a[6])

(***************************************************************************)
(* The renderer, as ptable calls it: every cell of every record is         *)
(* resolved and formatted, in row-major order; the first exception a       *)
(* formatter raises ends the generation.                                   *)
(***************************************************************************)
GetAttr(rec, attrib) ==
    CASE attrib = "city" -> Value(rec.city)
      [] attrib = "province" -> Value(rec.province)
      [] attrib = "country" -> Value(rec.country)
      [] attrib = "continent" -> Value(rec.continent)
      [] attrib = "get_population" -> get_population(rec)
      [] attrib = "get_area" -> get_area(rec)
      [] OTHER -> Raise("AttributeError")

ApplyFormatter(f, v) ==
    CASE f = "FormatCommas" -> Value(FormatCommas(v))
      [] f = "two_dec" -> two_dec(v)
      [] f = "no_dec" -> no_dec(v)
      [] OTHER -> Value(v)

Cell(rec, col, j) ==
    IF rec.cls = "list"
    THEN IF j > Len(rec.items) THEN Raise("ValidationError")
         ELSE ApplyFormatter(col.formatter, rec.items[j])
    ELSE IF col.obj_formatter = "pop_density" THEN pop_density(rec)
    ELSE LET v == GetAttr(rec, col.attrib)
         IN  IF v.exc # "none" THEN Raise(v.exc) ELSE ApplyFormatter(col.formatter, v.val)

\* tf.generate_table(rows=rows, columns=columns, grid_style=grid)
generate_table(rs, columns, grid_style) ==
    LET cells == [r \in 1..Len(rs) |-> [j \in 1..Len(columns) |-> Cell(rs[r], columns[j], j)]]
        bad == {p \in (1..Len(rs)) \X (1..Len(columns)) : cells[p[1]][p[2]].exc # "none"}
        first == CHOOSE p \in bad :
                    \A q \in bad : p[1] < q[1] \/ (p[1] = q[1] /\ p[2] <= q[2])
    IN  IF bad # {} THEN Raise(cells[first[1]][first[2]].exc)
        ELSE Value([grid_style |-> grid_style,
                    header |-> [j \in 1..Len(columns) |-> columns[j].name],
                    cells |-> [r \in 1..Len(rs) |-> [j \in 1..Len(columns) |-> cells[r][j].val]]])

(***************************************************************************)
(* TableDisplay.                                                           *)
(***************************************************************************)
Namespace(c, f, s) == [ok |-> TRUE, color |-> c, fancy |-> f, sparse |-> s]
ParseError == [ok |-> FALSE, color |-> FALSE, fancy |-> FALSE, sparse |-> FALSE]

Tokens == {"-c", "-f", "-s", "-x"}
Flags == {"-c", "-f", "-s"}

\* a parser whose three flags are in no mutually exclusive group
table_parser_no_group(argv) ==
    IF \E j \in 1..Len(argv) : argv[j] \notin Flags THEN ParseError
    ELSE Namespace(\E j \in 1..Len(argv) : argv[j] = "-c",
                   \E j \in 1..Len(argv) : argv[j] = "-f",
                   \E j \in 1..Len(argv) : argv[j] = "-s")

\* table_parser.parse_args(argv): -c, -f, -s in one mutually exclusive group
table_parser(argv) ==
    IF \E j \in 1..Len(argv) : argv[j] \notin Flags THEN ParseError
    ELSE IF \E j, l \in 1..Len(argv) : argv[j] # argv[l] THEN ParseError
    ELSE Namespace(\E j \in 1..Len(argv) : argv[j] = "-c",
                   \E j \in 1..Len(argv) : argv[j] = "-f",
                   \E j \in 1..Len(argv) : argv[j] = "-s")

\* the if/elif chain of ptable
select_grid(grid_args) ==
    IF grid_args.color THEN "AlternatingRowGrid"
    ELSE IF grid_args.fancy THEN "FancyGrid"
    ELSE IF grid_args.sparse THEN "SparseGrid"
    ELSE "None"

\* a variant that pages whatever was generated, an empty table on an error
ptable_catching(rs, columns, grid_args) ==
    LET g == select_grid(grid_args)
        t == generate_table(rs, columns, g)
    IN  [grid |-> g, exc |-> "none", paged |-> <<t.val>>]

\* ptable: what it selected, what it raised, and the calls it made to ppaged
ptable(rs, columns, grid_args) ==
    LET g == select_grid(grid_args)
        t == generate_table(rs, columns, g)
    IN  IF t.exc # "none" THEN [grid |-> g, exc |-> t.exc, paged |-> <<>>]
        ELSE [grid |-> g, exc |-> "none", paged |-> <<t.val>>]

(***************************************************************************)
(* State.                                                                  *)
(*   pc, i                 position in the module's top-level code         *)
(*   EXAMPLE_ITERABLE_DATA, COLUMNS, EXAMPLE_OBJECT_DATA, OBJ_COLS         *)
(*                         the module's globals (<<>> before assignment)   *)
(*   callee                the function or command most recently called    *)
(*   num, data, rows, argv its input                                       *)
(*   args, grid            the parsed Namespace and the grid style chosen  *)
(*   ret, exc              the string returned, the exception raised       *)
(*   paged                 the calls that call made to ppaged              *)
(*   repeated              whether the same command with the same flags    *)
(*                         has run before                                  *)
(*   history               the commands that ran ptable, with what they    *)
(*                         handed to the renderer and to the pager         *)
(*   tieRules              the tie-breaking rules that agree with every    *)
(*                         result no_dec has returned for a number k + 1/2 *)
(***************************************************************************)
VARIABLES pc, i, EXAMPLE_ITERABLE_DATA, COLUMNS, EXAMPLE_OBJECT_DATA, OBJ_COLS,
          callee, num, data, rows, argv, args, grid, ret, exc, paged, repeated,
          history, tieRules

globals == <<EXAMPLE_ITERABLE_DATA, COLUMNS, EXAMPLE_OBJECT_DATA, OBJ_COLS>>
frame == <<callee, num, data, rows, argv, args, grid, ret, exc, paged, repeated>>
vars == <<pc, i, globals, frame, history, tieRules>>

NoRecord == Other(NaN, NaN, FALSE, FALSE)

IdleFrame ==
    /\ callee = "idle" /\ num = NaN /\ data = NoRecord /\ rows = <<>> /\ argv = <<>>
    /\ args = ParseError /\ grid = "unset" /\ ret = <<>> /\ exc = "none" /\ paged = <<>>
    /\ repeated = FALSE

Init ==
    /\ pc = "rows" /\ i = 0
    /\ EXAMPLE_ITERABLE_DATA = <<>> /\ COLUMNS = <<>>
    /\ EXAMPLE_OBJECT_DATA = <<>> /\ OBJ_COLS = <<>>
    /\ IdleFrame
    /\ history = {} /\ tieRules = {"half-even", "half-away"}

(***************************************************************************)
(* Module start-up: the top-level statements, in order.                    *)
(***************************************************************************)
\* EXAMPLE_ITERABLE_DATA = [[...], ...]
AssignRows ==
    /\ pc = "rows"
    /\ EXAMPLE_ITERABLE_DATA' = ExampleRows
    /\ pc' = "density" /\ i' = 1
    /\ UNCHANGED <<COLUMNS, EXAMPLE_OBJECT_DATA, OBJ_COLS, frame, history, tieRules>>

\* for row in EXAMPLE_ITERABLE_DATA: row.append(row[-2]/row[-1])
DensityStep ==
    /\ pc = "density" /\ i <= Len(EXAMPLE_ITERABLE_DATA)
    /\ LET row == EXAMPLE_ITERABLE_DATA[i]
       IN  EXAMPLE_ITERABLE_DATA' =
               [EXAMPLE_ITERABLE_DATA EXCEPT ![i] = List(Append(row.items, RowDensity(row)))]
    /\ i' = i + 1
    /\ pc' = IF i = Len(EXAMPLE_ITERABLE_DATA) THEN "columns" ELSE "density"
    /\ UNCHANGED <<COLUMNS, EXAMPLE_OBJECT_DATA, OBJ_COLS, frame, history, tieRules>>

\* COLUMNS = [...]
AssignColumns ==
    /\ pc = "columns"
    /\ COLUMNS' = ColumnsLiteral
    /\ pc' = "objdata"
    /\ UNCHANGED <<i, EXAMPLE_ITERABLE_DATA, EXAMPLE_OBJECT_DATA, OBJ_COLS, frame,
                   history, tieRules>>

\* EXAMPLE_OBJECT_DATA = []
InitObjectData ==
    /\ pc = "objdata"
    /\ EXAMPLE_OBJECT_DATA' = <<>>
    /\ pc' = "objects" /\ i' = 1
    /\ UNCHANGED <<EXAMPLE_ITERABLE_DATA, COLUMNS, OBJ_COLS, frame, history, tieRules>>

\* for city_data in EXAMPLE_ITERABLE_DATA: EXAMPLE_OBJECT_DATA.append(CityInfo(*city_data[:-1]))
ObjectStep ==
    /\ pc = "objects" /\ i <= Len(EXAMPLE_ITERABLE_DATA)
    /\ EXAMPLE_OBJECT_DATA' =
           Append(EXAMPLE_OBJECT_DATA, CityInfoOfRow(EXAMPLE_ITERABLE_DATA[i]))
    /\ i' = i + 1
    /\ pc' = IF i = Len(EXAMPLE_ITERABLE_DATA) THEN "objcols" ELSE "objects"
    /\ UNCHANGED <<EXAMPLE_ITERABLE_DATA, COLUMNS, OBJ_COLS, frame, history, tieRules>>

\* OBJ_COLS = [...]
AssignObjCols ==
    /\ pc = "objcols"
    /\ OBJ_COLS' = ObjColsLiteral
    /\ pc' = "main"
    /\ UNCHANGED <<i, EXAMPLE_ITERABLE_DATA, COLUMNS, EXAMPLE_OBJECT_DATA, frame,
                   history, tieRules>>

\* if __name__ == '__main__' is false: the module was imported, and its importer
\* calls its functions
Imported ==
    /\ pc = "main"
    /\ pc' = "imported"
    /\ UNCHANGED <<i, globals, frame, history, tieRules>>

\* if __name__ == '__main__': app = TableDisplay(); app.cmdloop()
Main ==
    /\ pc = "main"
    /\ pc' = "cmdloop"
    /\ UNCHANGED <<i, globals, frame, history, tieRules>>

(***************************************************************************)
(* The commands.  A command line the parser rejects does not run the       *)
(* command's body.                                                         *)
(***************************************************************************)
RunTable(cmd, av, ns, rs, columns) ==
    /\ callee' = cmd /\ argv' = av /\ args' = ns
    /\ num' = NaN /\ data' = NoRecord /\ rows' = <<>> /\ ret' = <<>>
    /\ IF ns.ok
       THEN LET o == ptable(rs, columns, ns)
            IN  /\ grid' = o.grid /\ exc' = o.exc /\ paged' = o.paged
                /\ repeated' = (\E h \in history : h.cmd = cmd /\ h.args = ns)
                /\ history' = history \cup
                       {[cmd |-> cmd, args |-> ns, rows |-> rs, columns |-> columns,
                         exc |-> o.exc, paged |-> o.paged]}
       ELSE /\ grid' = "unset" /\ exc' = "none" /\ paged' = <<>>
            /\ UNCHANGED <<repeated, history>>

\* a variant that reverses the rows in place before displaying them
do_table_reversing(av) ==
    /\ pc = "cmdloop" /\ callee = "idle"
    /\ EXAMPLE_ITERABLE_DATA' =
           [r \in 1..Len(EXAMPLE_ITERABLE_DATA) |->
               EXAMPLE_ITERABLE_DATA[Len(EXAMPLE_ITERABLE_DATA) + 1 - r]]
    /\ RunTable("do_table", av, table_parser(av), EXAMPLE_ITERABLE_DATA', COLUMNS)
    /\ UNCHANGED <<pc, i, COLUMNS, EXAMPLE_OBJECT_DATA, OBJ_COLS, tieRules>>

\* do_table: self.ptable(EXAMPLE_ITERABLE_DATA, COLUMNS, args)
do_table(av) ==
    /\ pc = "cmdloop" /\ callee = "idle"
    /\ RunTable("do_table", av, table_parser(av), EXAMPLE_ITERABLE_DATA, COLUMNS)
    /\ UNCHANGED <<pc, i, globals, tieRules>>

\* do_object_table: self.ptable(EXAMPLE_OBJECT_DATA, OBJ_COLS, args)
do_object_table(av) ==
    /\ pc = "cmdloop" /\ callee = "idle"
    /\ RunTable("do_object_table", av, table_parser(av), EXAMPLE_OBJECT_DATA, OBJ_COLS)
    /\ UNCHANGED <<pc, i, globals, tieRules>>

\* the call or command is over: back to the caller, or to the prompt of cmdloop
Return ==
    /\ callee # "idle"
    /\ callee' = "idle" /\ num' = NaN /\ data' = NoRecord /\ rows' = <<>> /\ argv' = <<>>
    /\ args' = ParseError /\ grid' = "unset" /\ ret' = <<>> /\ exc' = "none"
    /\ paged' = <<>> /\ repeated' = FALSE
    /\ UNCHANGED <<pc, i, globals, history, tieRules>>

Argvs == UNION {[1..n -> Tokens] : n \in 0..MaxArgs}

(***************************************************************************)
(* The functions called one at a time, on inputs of any shape, by a module *)
(* that has imported this one.                                             *)
(***************************************************************************)
Numbers ==
    {Fin(n, d) : n \in (-MaxNum)..MaxNum, d \in 1..MaxDen}
        \cup {NaN, PosInf, NegInf, NegZero}

Areas == {Fin(n, d) : n \in 0..MaxArea, d \in 1..2} \cup {NaN, PosInf}

Records ==
    {CityInfo("c", "p", "n", "t", Fin(p, 1), a) : p \in (-1)..MaxPop, a \in Areas}
        \cup {Other(Fin(MaxPop, 1), a, hp, ha) :
                 a \in {Fin(0, 1), Fin(2, 1)}, hp \in BOOLEAN, ha \in BOOLEAN}

TableRecords ==
    {CityInfo("c", "p", "n", "t", Fin(MaxPop, 1), a) : a \in {Fin(0, 1), Fin(2, 1), NaN}}
        \cup {Other(Fin(MaxPop, 1), Fin(2, 1), TRUE, TRUE)}

Datasets == UNION {[1..n -> TableRecords] : n \in 0..MaxRows}

Namespaces == {Namespace(c, f, s) : c \in BOOLEAN, f \in BOOLEAN, s \in BOOLEAN}

\* x = k + 1/2 for an integer k
IsTie(x) == x.k = "fin" /\ (2 * x.n) % x.d = 0 /\ x.n % x.d # 0

\* the rules that round the tie x to the integer r
RulesGiving(x, r) ==
    LET lo == x.n \div x.d
    IN  (IF r = (IF lo % 2 = 0 THEN lo ELSE lo + 1) THEN {"half-even"} ELSE {})
        \cup (IF r = (IF x.n > 0 THEN lo + 1 ELSE lo) THEN {"half-away"} ELSE {})

RECURSIVE StrToNat(_)
StrToNat(s) ==
    IF Len(s) = 0 THEN 0
    ELSE 10 * StrToNat(SubSeq(s, 1, Len(s) - 1))
         + ((CHOOSE j \in 1..10 : DigitChars[j] = s[Len(s)]) - 1)

IsDigits(s) == Len(s) >= 1 /\ \A j \in 1..Len(s) : s[j] \in DigitSet

\* s matches -?\d+
IsIntString(s) ==
    Len(s) >= 1 /\ IsDigits(IF s[1] = "-" THEN Tail(s) ELSE s)

StrToInt(s) == IF s[1] = "-" THEN -StrToNat(Tail(s)) ELSE StrToNat(s)

Call_no_dec(x) ==
    /\ pc = "imported" /\ callee = "idle"
    /\ callee' = "no_dec" /\ num' = x
    /\ LET o == no_dec(x)
       IN  /\ ret' = o.val /\ exc' = o.exc
           /\ tieRules' = IF IsTie(x) /\ o.exc = "none" /\ IsIntString(o.val)
                          THEN tieRules \cap RulesGiving(x, StrToInt(o.val))
                          ELSE tieRules
    /\ UNCHANGED <<pc, i, globals, data, rows, argv, args, grid, paged, repeated, history>>

Call_two_dec(x) ==
    /\ pc = "imported" /\ callee = "idle"
    /\ callee' = "two_dec" /\ num' = x
    /\ LET o == two_dec(x) IN ret' = o.val /\ exc' = o.exc
    /\ UNCHANGED <<pc, i, globals, data, rows, argv, args, grid, paged, repeated, history, tieRules>>

Call_pop_density(rec) ==
    /\ pc = "imported" /\ callee = "idle"
    /\ callee' = "pop_density" /\ data' = rec
    /\ LET o == pop_density(rec) IN ret' = o.val /\ exc' = o.exc
    /\ UNCHANGED <<pc, i, globals, num, rows, argv, args, grid, paged, repeated, history, tieRules>>

Call_ptable(rs, ns) ==
    /\ pc = "imported" /\ callee = "idle"
    /\ callee' = "ptable" /\ rows' = rs /\ args' = ns
    /\ LET o == ptable(rs, OBJ_COLS, ns)
       IN  grid' = o.grid /\ exc' = o.exc /\ paged' = o.paged
    /\ UNCHANGED <<pc, i, globals, num, data, argv, ret, repeated, history, tieRules>>

Next ==
    \/ AssignRows
    \/ DensityStep
    \/ AssignColumns
    \/ InitObjectData
    \/ ObjectStep
    \/ AssignObjCols
    \/ Main
    \/ Imported
    \/ \E av \in Argvs : do_table(av)
    \/ \E av \in Argvs : do_object_table(av)
    \/ \E x \in Numbers : Call_no_dec(x)
    \/ \E x \in Numbers : Call_two_dec(x)
    \/ \E rec \in Records : Call_pop_density(rec)
    \/ \E rs \in Datasets, ns \in Namespaces : Call_ptable(rs, ns)
    \/ Return

Spec == Init /\ [][Next]_vars

(***************************************************************************)
(* The claims.                                                             *)
(***************************************************************************)
\* the exact quotient p / a of a finite p by a finite a > 0, or by +Infinity
Quotient(p, a) ==
    IF a.k = "inf" THEN Fin(0, 1) ELSE Norm(p.n * a.d, p.d * a.n)

AreaPositive(a) == (a.k = "fin" /\ a.n > 0) \/ a = PosInf

\* C1: for a CityInfo with population P and area A > 0, pop_density returns
\* exactly what no_dec returns for the quotient P / A, and raises nothing.
C1_DensityIsNoDecOfQuotient ==
    (callee = "pop_density" /\ IsCityInfo(data) /\ AreaPositive(data._area)) =>
        /\ exc = "none"
        /\ ret = no_dec(Quotient(data._population, data._area)).val

\* pop_density has returned for population 5 and area 2: 2.5 formats as "2"
C1_Witness ==
    /\ callee = "pop_density" /\ IsCityInfo(data)
    /\ data._population = Fin(5, 1) /\ data._area = Fin(2, 1)
    /\ exc = "none" /\ ret = <<"2">>

\* C2: for a record that is not of the expected variant (not a CityInfo),
\* with or without an area accessor, pop_density returns the empty string
\* and raises nothing.
C2_NonConformingGivesEmpty ==
    (callee = "pop_density" /\ ~IsCityInfo(data)) => (exc = "none" /\ ret = <<>>)

\* pop_density has returned for a record with a population accessor and no
\* area accessor
C2_Witness ==
    /\ callee = "pop_density" /\ data.cls = "Other"
    /\ data.has_population /\ ~data.has_area
    /\ exc = "none" /\ ret = <<>>

TableEntries(cmd) == {h \in history : h.cmd = cmd /\ h.exc = "none"}

\* C3: once the example data is built, for every city the density cell of the
\* row-mode table equals the density cell of the object-mode table, in the
\* data as in every table handed to the pager, and the population and the
\* area given to the formatters are the same in both modes.
C3_ModesAgree ==
    pc \in {"cmdloop", "imported"} =>
        /\ Len(EXAMPLE_OBJECT_DATA) = Len(EXAMPLE_ITERABLE_DATA)
        /\ \A r \in 1..Len(EXAMPLE_ITERABLE_DATA) :
              LET row == EXAMPLE_ITERABLE_DATA[r]
                  obj == EXAMPLE_OBJECT_DATA[r]
              IN  /\ no_dec(row.items[7]) = pop_density(obj)
                  /\ pop_density(obj).exc = "none"
                  /\ row.items[5] = get_population(obj).val
                  /\ row.items[6] = get_area(obj).val
        /\ \A a \in TableEntries("do_table"), b \in TableEntries("do_object_table") :
              \A r \in 1..Len(EXAMPLE_ITERABLE_DATA) : \A j \in 5..7 :
                  a.paged[1].cells[r][j] = b.paged[1].cells[r][j]

\* both tables have been paged, and Shanghai's density reads "3814" in both
C3_Witness ==
    /\ pc = "cmdloop"
    /\ \E a \in TableEntries("do_table"), b \in TableEntries("do_object_table") :
          /\ a.paged[1].cells[1][7] = <<"3", "8", "1", "4">>
          /\ b.paged[1].cells[1][7] = <<"3", "8", "1", "4">>

\* C4: for a finite x, no_dec returns the decimal string (-?\d+) of an
\* integer n with |x - n| <= 1/2, and one single rule, half-to-even or
\* half-away-from-zero, agrees with every result returned for a tie k + 1/2.
C4_NoDecNearestInteger ==
    /\ tieRules # {}
    /\ (callee = "no_dec" /\ IsFinite(num)) =>
          /\ exc = "none"
          /\ IsIntString(ret)
          /\ 2 * Abs(num.n - StrToInt(ret) * num.d) <= num.d

\* no_dec has rounded -5/2 to "-2" after a tie that only half-to-even explains
C4_Witness ==
    /\ callee = "no_dec" /\ num = Fin(-5, 2) /\ ret = <<"-", "2">>
    /\ tieRules = {"half-even"}

\* s matches -?\d+\.\d{2}
IsTwoDecString(s) ==
    /\ Len(s) >= 4
    /\ s[Len(s) - 2] = "." /\ s[Len(s) - 1] \in DigitSet /\ s[Len(s)] \in DigitSet
    /\ LET ip == SubSeq(s, 1, Len(s) - 3)
       IN  IsDigits(IF ip[1] = "-" THEN Tail(ip) ELSE ip)

\* C5: for a finite x, two_dec returns a string of an optional '-', one or
\* more digits, a decimal point and exactly two digits, and nothing else.
C5_TwoDecShape ==
    (callee = "two_dec" /\ IsFinite(num)) => (exc = "none" /\ IsTwoDecString(ret))

\* two_dec has formatted -1/8, a tie at the third decimal, as "-0.12"
C5_Witness ==
    /\ callee = "two_dec" /\ num = Fin(-1, 8)
    /\ ret = <<"-", "0", ".", "1", "2">>

\* C6: given NaN, +Infinity or -Infinity, no_dec and two_dec raise an error
\* and return no string.
C6_NonFiniteRaises ==
    (callee \in {"no_dec", "two_dec"} /\ ~IsFinite(num)) =>
        (exc # "none" /\ ret = <<>>)

\* C7: once the command loop runs, no step changes the datasets or the column
\* lists; every run of a command hands the renderer the same rows and columns,
\* and runs of the same command with the same flags page the same table.
C7_GlobalsFrozenOutputRepeats ==
    /\ [][pc = "cmdloop" => UNCHANGED globals]_vars
    /\ [](\A a \in history, b \in history :
            a.cmd = b.cmd =>
                /\ a.rows = b.rows /\ a.columns = b.columns
                /\ a.args = b.args => (a.paged = b.paged /\ a.exc = b.exc))

\* a command has run a second time with the same flags and paged its table
C7_Witness ==
    /\ pc = "cmdloop" /\ callee = "do_table" /\ repeated
    /\ args = Namespace(FALSE, TRUE, FALSE) /\ Len(paged) = 1
    /\ Cardinality(history) > 1

\* C8: an error raised while a cell is formatted is not caught by ptable: it
\* reaches ptable's caller and ppaged is not called; ppaged is called, once,
\* only when generate_table has returned.  A CityInfo of area 0 is such an error.
C8_ErrorsPropagate ==
    callee = "ptable" =>
        LET t == generate_table(rows, OBJ_COLS, grid)
        IN  /\ t.exc # "none" => (exc = t.exc /\ paged = <<>>)
            /\ t.exc = "none" => (exc = "none" /\ paged = <<t.val>>)
            /\ (\E r \in 1..Len(rows) : IsCityInfo(rows[r]) /\ IsZero(rows[r]._area))
                  => (exc # "none" /\ paged = <<>>)

\* ptable was given a good record and then one of area 0: the division error
\* reached the caller and nothing was paged
C8_Witness ==
    /\ callee = "ptable" /\ Len(rows) = 2
    /\ IsCityInfo(rows[1]) /\ rows[1]._area = Fin(2, 1)
    /\ IsCityInfo(rows[2]) /\ IsZero(rows[2]._area)
    /\ exc = "ZeroDivisionError" /\ paged = <<>>

\* C9: during the density loop each row already visited has seven values and
\* each row still to visit has six; once start-up has finished every row has as
\* many values as COLUMNS has columns (7), the seventh being population/area,
\* EXAMPLE_OBJECT_DATA holds one CityInfo per row, in order, built from the
\* row's first six values, and OBJ_COLS has as many columns as COLUMNS.
C9_StartupShapes ==
    /\ pc = "density" =>
          \A r \in 1..Len(EXAMPLE_ITERABLE_DATA) :
              Len(EXAMPLE_ITERABLE_DATA[r].items) = IF r < i THEN 7 ELSE 6
    /\ pc \in {"main", "cmdloop", "imported"} =>
          /\ Len(COLUMNS) = 7 /\ Len(OBJ_COLS) = Len(COLUMNS)
          /\ Len(EXAMPLE_ITERABLE_DATA) = Len(ExampleRows)
          /\ Len(EXAMPLE_OBJECT_DATA) = Len(EXAMPLE_ITERABLE_DATA)
          /\ \A r \in 1..Len(EXAMPLE_ITERABLE_DATA) :
                LET a == EXAMPLE_ITERABLE_DATA[r].items
                IN  /\ Len(a) = Len(COLUMNS)
                    /\ SubSeq(a, 1, 6) = ExampleRows[r].items
                    /\ a[7] = Quotient(a[5], a[6])
                    /\ EXAMPLE_OBJECT_DATA[r] = CityInfo(a[1], a[2], a[3], a[4], a[5], a[6])

\* start-up has finished with seven rows of seven values and seven objects
C9_Witness ==
    /\ pc = "cmdloop" /\ Len(EXAMPLE_OBJECT_DATA) = 7
    /\ Len(EXAMPLE_ITERABLE_DATA[7].items) = 7
    /\ EXAMPLE_OBJECT_DATA[7].city = "Istanbul"

FlagCount(ns) ==
    (IF ns.color THEN 1 ELSE 0) + (IF ns.fancy THEN 1 ELSE 0) + (IF ns.sparse THEN 1 ELSE 0)

Given(flag) == \E j \in 1..Len(argv) : argv[j] = flag

\* C10: ptable selects AlternatingRowGrid if color is set, otherwise FancyGrid
\* if fancy is set, otherwise SparseGrid if sparse is set, otherwise no style;
\* a parsed command line sets at most one flag, and the style selected for a
\* command is the one of the flag given on its line.
C10_GridSelection ==
    /\ (callee \in {"ptable", "do_table", "do_object_table"} /\ args.ok) =>
          /\ args.color => grid = "AlternatingRowGrid"
          /\ (~args.color /\ args.fancy) => grid = "FancyGrid"
          /\ (~args.color /\ ~args.fancy /\ args.sparse) => grid = "SparseGrid"
          /\ (~args.color /\ ~args.fancy /\ ~args.sparse) => grid = "None"
    /\ (callee \in {"do_table", "do_object_table"} /\ args.ok) =>
          /\ FlagCount(args) <= 1
          /\ Given("-c") <=> grid = "AlternatingRowGrid"
          /\ Given("-f") <=> grid = "FancyGrid"
          /\ Given("-s") <=> grid = "SparseGrid"
          /\ argv = <<>> <=> grid = "None"
    /\ (callee \in {"do_table", "do_object_table"} /\ ~args.ok) =>
          (grid = "unset" /\ paged = <<>>)

\* do_object_table -s has run and its table went to the pager in the sparse style
C10_Witness ==
    /\ callee = "do_object_table" /\ argv = <<"-s">> /\ args.sparse
    /\ grid = "SparseGrid" /\ Len(paged) = 1 /\ paged[1].grid_style = "SparseGrid"
====
